---- MODULE Spec2Model ----
(***************************************************************************)
(* LocalFileStorage (src/src/model/storage/local-file-storage.ts): the     *)
(* service that opens and saves checklist files through the File System    *)
(* Access API, with an <input type=file> / download fallback, and that     *)
(* remembers one optional FileSystemFileHandle between calls.              *)
(*                                                                         *)
(* Every await of the source is a step of its own: a call is a frame that  *)
(* moves from one suspension point to the next, and the browser (picker,   *)
(* file system, codec) chooses how each awaited promise settles.           *)
(***************************************************************************)
EXTENDS Integers, Sequences, FiniteSets, TLC

(***************************************************************************)
(* Bounds of the model.                                                    *)
(***************************************************************************)
\* Number of filesystem locations the user can pick.
NumLocations == 2
\* Number of call frames (async calls that can exist at the same time).
MaxInFlight == 2

Locations == 1..NumLocations
Slots == 1..MaxInFlight

(***************************************************************************)
(* Values.                                                                 *)
(***************************************************************************)
\* `_currentFileHandle` is optional: undefined is modelled as location 0.
NoHandle == 0

\* FileSystemFileHandle.name of a location.
HandleName(h) ==
  IF h = 1 THEN "trip.json" ELSE IF h = 2 THEN "plan.json" ELSE "other.json"

\* The checklist documents callers pass to saveFile (metadata.name).
Documents == {[name |-> "trip"], [name |-> ""]}
NoDocument == [name |-> "<none>"]

\* Names of the DOMExceptions the platform rejects an awaited promise with.
\* "AbortError" is what a picker raises when the user dismisses it; the File
\* System Access API also uses it for aborted file operations.
DOMErrorNames == {"AbortError", "NotAllowedError"}

\* The JSON codec (FORMAT_REGISTRY.getFormat(FormatId.JSON)): fromProto
\* makes a named blob from a document, toProto parses a file's bytes.
fromProtoBytes(doc) == <<"{", doc.name, "}">>
fromProtoName(doc) == <<doc.name, ".json">>
fromProto(doc) == [bytes |-> fromProtoBytes(doc), name |-> fromProtoName(doc)]
NoBlob == [bytes |-> <<>>, name |-> <<>>]

toProtoOk(bytes) == Len(bytes) = 3 /\ bytes[1] = "{" /\ bytes[3] = "}"
toProto(bytes) == [name |-> bytes[2]]

\* `${checklistFile.metadata?.name || 'checklist'}.json`
suggestedName(doc) ==
  <<IF doc.name # "" THEN doc.name ELSE "checklist", ".json">>

\* Contents of the locations before the program runs: location 1 holds a
\* saved checklist, every other location holds bytes that are no checklist
\* and are longer than any encoded document.
InitialContents(l) ==
  IF l = 1 THEN fromProtoBytes([name |-> "trip"])
  ELSE <<"not", "a", "checklist", "file">>

VARIABLES
  env,                 \* the global scope: window and its two picker entry points
  currentFileHandle,   \* LocalFileStorage._currentFileHandle
  fs,                  \* contents of every filesystem location
  calls,               \* the call frames of openFile / saveFile
  lastOp,              \* the operation the caller invoked most recently
  lastPicked,          \* the location most recently granted by a picker and
                       \* not cleared since (history)
  observed,            \* what the caller's most recent query returned
  bar,                 \* ChecklistCommandBarComponent: the handler in progress
  events,              \* every event the command bar has emitted, in order
  reentrantCalls       \* operations invoked so far by the caller that overlaps
                       \* its calls

vars ==
  <<env, currentFileHandle, fs, calls, lastOp, lastPicked, observed, bar, events,
    reentrantCalls>>

\* The state of LocalFileStorage and of its calls.
storageVars == <<env, currentFileHandle, fs, calls, lastOp, lastPicked>>

(***************************************************************************)
(* Call frames.                                                            *)
(***************************************************************************)
IdleFrame ==
  [op |-> "none", pc |-> "idle", native |-> FALSE,
   doc |-> NoDocument, saveAs |-> FALSE,
   fileHandle |-> NoHandle,      \* the local `fileHandle`
   h0 |-> NoHandle,              \* _currentFileHandle when the call began
   fs0 |-> <<>>,                 \* the locations' contents when the call began
   after |-> "none",             \* the operation invoked before this call
   overlapped |-> FALSE,         \* another operation was invoked during the call
   picker |-> "none",            \* the file chooser shown to the user: none,
                                 \* open, selected, cancelled, failed, empty
   picked |-> NoHandle,          \* the location the picker resolved with
   suggested |-> <<>>,           \* suggestedName given to the save picker
   file |-> <<>>,                \* bytes of the File read by getFile / the input
   swap |-> <<>>,                \* the writable's swap file
   blob |-> NoBlob,
   encoded |-> "no",             \* no, ok, failed
   wrote |-> NoHandle,           \* the location whose contents the call replaced
   downloads |-> 0, download |-> <<>>,
   logged |-> FALSE,             \* console.error was called
   result |-> "none",            \* document, null, true, false, error
   resultDoc |-> NoDocument, errorName |-> ""]

InFlight(s) == calls[s].pc \notin {"idle", "done"}
NoneInFlight == \A s \in Slots : ~InFlight(s)

\* A frame is taken by a new call when no lower frame is free; the frames of
\* completed calls are released when the caller invokes its next operation.
FreeSlot(s) == ~InFlight(s) /\ \A t \in Slots : t < s => InFlight(t)
Release(t) ==
  IF InFlight(t) THEN [calls[t] EXCEPT !.overlapped = TRUE] ELSE IdleFrame

(***************************************************************************)
(* Capability detection, lines 18-23.                                      *)
(***************************************************************************)
isFileSystemAccessSupported_OpenPickerOnly ==
  IF ~env.window THEN FALSE ELSE env.showOpenFilePicker

isFileSystemAccessSupported_EitherPicker ==
  IF ~env.window THEN FALSE ELSE env.showOpenFilePicker \/ env.showSaveFilePicker

isFileSystemAccessSupported ==
  IF ~env.window THEN FALSE ELSE env.showOpenFilePicker /\ env.showSaveFilePicker

hasFileHandle == currentFileHandle # NoHandle

getCurrentFileName_Unguarded == HandleName(currentFileHandle)

getCurrentFileName ==
  IF currentFileHandle = NoHandle THEN "undefined" ELSE HandleName(currentFileHandle)

(***************************************************************************)
(* How a call ends.                                                        *)
(***************************************************************************)
Return(c, kind) == [c EXCEPT !.pc = "done", !.result = kind]
ReturnDocument(c, d) == [c EXCEPT !.pc = "done", !.result = "document", !.resultDoc = d]
Raise(c, name) == [c EXCEPT !.pc = "done", !.result = "error", !.errorName = name]

\* catch of _openFileWithFSA, lines 59-65.
openFileWithFSA_catch_Rethrow(c, name) == Raise(c, name)

openFileWithFSA_catch(c, name) ==
  IF name = "AbortError" THEN Return(c, "null") ELSE Raise(c, name)

\* catch of _saveFileWithFSA, lines 148-154.
saveFileWithFSA_catch_Rethrow(c, name) == Raise(c, name)

saveFileWithFSA_catch(c, name) ==
  IF name = "AbortError" THEN Return(c, "false") ELSE Raise(c, name)

\* catch of _saveFileWithFallback, lines 172-175.
saveFileWithFallback_catch_Rethrow(c, name) == Raise(c, name)

saveFileWithFallback_catch(c, name) ==
  [Return(c, "false") EXCEPT !.logged = TRUE]

(***************************************************************************)
(* The caller invokes an operation.                                        *)
(***************************************************************************)
NewFrame(op, doc, saveAs) ==
  [IdleFrame EXCEPT !.op = op, !.doc = doc, !.saveAs = saveAs,
                    !.h0 = currentFileHandle, !.fs0 = fs, !.after = lastOp,
                    !.overlapped = ~NoneInFlight]

Invoke(s, frame, op) ==
  /\ calls' = [t \in Slots |-> IF t = s THEN frame ELSE Release(t)]
  /\ lastOp' = op

\* openFile, lines 30-36, up to the first await of the strategy it selects:
\* showOpenFilePicker (line 44) or the input element's events (line 96).
openFileCall(s) ==
  LET c == NewFrame("openFile", NoDocument, FALSE) IN
  /\ IF isFileSystemAccessSupported
       THEN Invoke(s, [c EXCEPT !.native = TRUE, !.pc = "showOpenFilePicker",
                                !.picker = "open"], "openFile")
       ELSE Invoke(s, [c EXCEPT !.pc = "input", !.picker = "open"], "openFile")
  /\ UNCHANGED <<env, currentFileHandle, fs, lastPicked, observed, bar, events>>

\* Line 123: whether _saveFileWithFSA prompts for a location.
promptsForLocation_Always(saveAs, fileHandle) == TRUE

promptsForLocation_NoHandleOnly(saveAs, fileHandle) == fileHandle = NoHandle

promptsForLocation_SaveAsOnly(saveAs, fileHandle) == saveAs

promptsForLocation(saveAs, fileHandle) == saveAs \/ fileHandle = NoHandle

\* Line 138: whether _saveFileWithFSA throws 'No file handle available'.
throwsNoFileHandle_Never(fileHandle) == FALSE

throwsNoFileHandle(fileHandle) == fileHandle = NoHandle

\* saveFile, lines 106-112, up to the first await of the strategy it selects:
\* showSaveFilePicker (line 124), createWritable (line 142, unless line 138
\* throws for want of a handle) or fromProto (line 162).
saveFileCall(s, doc, saveAs) ==
  LET c == NewFrame("saveFile", doc, saveAs)
      n == [c EXCEPT !.native = TRUE, !.fileHandle = currentFileHandle] IN
  /\ IF isFileSystemAccessSupported
       THEN IF promptsForLocation(saveAs, n.fileHandle)
              THEN Invoke(s, [n EXCEPT !.pc = "showSaveFilePicker", !.picker = "open",
                                       !.suggested = suggestedName(doc)], "saveFile")
              ELSE IF throwsNoFileHandle(n.fileHandle)
                     THEN Invoke(s, saveFileWithFSA_catch(n, "Error"), "saveFile")
                     ELSE Invoke(s, [n EXCEPT !.pc = "createWritable"], "saveFile")
       ELSE Invoke(s, [c EXCEPT !.pc = "fallbackFromProto"], "saveFile")
  /\ UNCHANGED <<env, currentFileHandle, fs, lastPicked, observed, bar, events>>

\* The caller's discipline (one file operation at a time): an operation is
\* invoked only when no call is in flight.
openFile ==
  /\ NoneInFlight
  /\ \E s \in Slots : FreeSlot(s) /\ openFileCall(s)
  /\ UNCHANGED reentrantCalls

saveFile ==
  /\ NoneInFlight
  /\ \E s \in Slots, doc \in Documents, saveAs \in BOOLEAN :
       FreeSlot(s) /\ saveFileCall(s, doc, saveAs)
  /\ UNCHANGED reentrantCalls

\* clearFileHandle, lines 181-183.
clearFileHandleCall ==
  /\ currentFileHandle' = NoHandle
  /\ lastPicked' = NoHandle
  /\ calls' = [t \in Slots |-> Release(t)]
  /\ lastOp' = "clearFileHandle"
  /\ UNCHANGED <<env, fs, observed, bar, events>>

clearFileHandle == NoneInFlight /\ clearFileHandleCall /\ UNCHANGED reentrantCalls

(***************************************************************************)
(* _openFileWithFSA, lines 41-66.                                          *)
(***************************************************************************)
Step(s, frame) == calls' = [calls EXCEPT ![s] = frame]

\* Line 56: the handle kept when the open picker resolves.
handleAfterOpenPick_KeepHeld(old, fileHandle) ==
  IF old # NoHandle THEN old ELSE fileHandle

handleAfterOpenPick(old, fileHandle) == fileHandle

\* Lines 44-56: the picker resolves with the one handle the user selected.
showOpenFilePickerResolves(s, l) ==
  /\ calls[s].pc = "showOpenFilePicker"
  /\ currentFileHandle' = handleAfterOpenPick(currentFileHandle, l)
  /\ lastPicked' = l
  /\ Step(s, [calls[s] EXCEPT !.pc = "getFile", !.picker = "selected",
                              !.picked = l, !.fileHandle = l])
  /\ UNCHANGED <<env, fs, lastOp, observed, bar, events, reentrantCalls>>

\* Line 44 rejects: the user dismissed the picker (AbortError) or it failed.
showOpenFilePickerRejects(s, name) ==
  /\ calls[s].pc = "showOpenFilePicker"
  /\ Step(s, openFileWithFSA_catch(
               [calls[s] EXCEPT !.picker = IF name = "AbortError" THEN "cancelled"
                                           ELSE "failed"], name))
  /\ UNCHANGED <<env, currentFileHandle, fs, lastOp, lastPicked, observed, bar, events, reentrantCalls>>

\* Line 57: fileHandle.getFile() gives the file's current contents.
getFileResolves(s) ==
  /\ calls[s].pc = "getFile"
  /\ Step(s, [calls[s] EXCEPT !.pc = "toProto", !.file = fs[calls[s].fileHandle]])
  /\ UNCHANGED <<env, currentFileHandle, fs, lastOp, lastPicked, observed, bar, events, reentrantCalls>>

getFileRejects(s, name) ==
  /\ calls[s].pc = "getFile"
  /\ Step(s, openFileWithFSA_catch(calls[s], name))
  /\ UNCHANGED <<env, currentFileHandle, fs, lastOp, lastPicked, observed, bar, events, reentrantCalls>>

\* Line 58: the codec parses the file or fails to.
toProtoSettles(s) ==
  /\ calls[s].pc = "toProto"
  /\ calls[s].native
  /\ Step(s, IF toProtoOk(calls[s].file)
               THEN ReturnDocument(calls[s], toProto(calls[s].file))
               ELSE openFileWithFSA_catch(calls[s], "DecodeError"))
  /\ UNCHANGED <<env, currentFileHandle, fs, lastOp, lastPicked, observed, bar, events, reentrantCalls>>

(***************************************************************************)
(* _saveFileWithFSA, lines 117-155.                                        *)
(***************************************************************************)
\* Line 135: the handle kept when the save picker resolves.
handleAfterSavePick_KeepHeld(old, fileHandle) ==
  IF old # NoHandle THEN old ELSE fileHandle

handleAfterSavePick(old, fileHandle) == fileHandle

\* Lines 124-142: the picker resolves with the location the user chose.
showSaveFilePickerResolves(s, l) ==
  /\ calls[s].pc = "showSaveFilePicker"
  /\ currentFileHandle' = handleAfterSavePick(currentFileHandle, l)
  /\ lastPicked' = l
  /\ Step(s, [calls[s] EXCEPT !.pc = "createWritable", !.picker = "selected",
                              !.picked = l, !.fileHandle = l])
  /\ UNCHANGED <<env, fs, lastOp, observed, bar, events, reentrantCalls>>

\* Lines 124-140: the picker resolves with no handle; line 135 stores it and
\* line 139 throws Error('No file handle available').
showSaveFilePickerResolvesEmpty(s) ==
  /\ calls[s].pc = "showSaveFilePicker"
  /\ currentFileHandle' = handleAfterSavePick(currentFileHandle, NoHandle)
  /\ lastPicked' = NoHandle
  /\ LET c == [calls[s] EXCEPT !.picker = "empty", !.fileHandle = NoHandle] IN
     Step(s, IF throwsNoFileHandle(c.fileHandle)
               THEN saveFileWithFSA_catch(c, "Error")
               ELSE [c EXCEPT !.pc = "createWritable"])
  /\ UNCHANGED <<env, fs, lastOp, observed, bar, events, reentrantCalls>>

showSaveFilePickerRejects(s, name) ==
  /\ calls[s].pc = "showSaveFilePicker"
  /\ Step(s, saveFileWithFSA_catch(
               [calls[s] EXCEPT !.picker = IF name = "AbortError" THEN "cancelled"
                                           ELSE "failed"], name))
  /\ UNCHANGED <<env, currentFileHandle, fs, lastOp, lastPicked, observed, bar, events, reentrantCalls>>

\* Line 142: createWritable() is called without keepExistingData, so the
\* swap file starts empty rather than as a copy of the location's contents.
swapOnCreateWritable_KeepExistingData(contents) == contents

swapOnCreateWritable(contents) == <<>>

\* Line 142: the location's contents change only when the stream is closed.
createWritableResolves(s) ==
  /\ calls[s].pc = "createWritable"
  /\ Step(s, [calls[s] EXCEPT !.pc = "fromProto",
                              !.swap = swapOnCreateWritable(fs[calls[s].fileHandle])])
  /\ UNCHANGED <<env, currentFileHandle, fs, lastOp, lastPicked, observed, bar, events, reentrantCalls>>

createWritableRejects(s, name) ==
  /\ calls[s].pc = "createWritable"
  /\ Step(s, saveFileWithFSA_catch(calls[s], name))
  /\ UNCHANGED <<env, currentFileHandle, fs, lastOp, lastPicked, observed, bar, events, reentrantCalls>>

\* Line 143: the codec encodes the document or fails to.
fromProtoResolves(s) ==
  /\ calls[s].pc = "fromProto"
  /\ Step(s, [calls[s] EXCEPT !.pc = "write", !.encoded = "ok",
                              !.blob = fromProto(calls[s].doc)])
  /\ UNCHANGED <<env, currentFileHandle, fs, lastOp, lastPicked, observed, bar, events, reentrantCalls>>

fromProtoRejects(s) ==
  /\ calls[s].pc = "fromProto"
  /\ Step(s, saveFileWithFSA_catch([calls[s] EXCEPT !.encoded = "failed"], "EncodeError"))
  /\ UNCHANGED <<env, currentFileHandle, fs, lastOp, lastPicked, observed, bar, events, reentrantCalls>>

\* writable.write(data) with the cursor at 0: data replaces the first
\* Len(data) bytes of the swap file.
WriteAtStart(swap, data) == data \o SubSeq(swap, Len(data) + 1, Len(swap))

\* Line 144.
writeResolves(s) ==
  /\ calls[s].pc = "write"
  /\ Step(s, [calls[s] EXCEPT !.pc = "close",
                              !.swap = WriteAtStart(calls[s].swap, calls[s].blob.bytes)])
  /\ UNCHANGED <<env, currentFileHandle, fs, lastOp, lastPicked, observed, bar, events, reentrantCalls>>

writeRejects(s, name) ==
  /\ calls[s].pc = "write"
  /\ Step(s, saveFileWithFSA_catch(calls[s], name))
  /\ UNCHANGED <<env, currentFileHandle, fs, lastOp, lastPicked, observed, bar, events, reentrantCalls>>

\* The location close() commits the swap file to.
closeTarget(c) == c.fileHandle

\* Lines 145-147: close() replaces the location's contents by the swap file.
closeResolves(s) ==
  /\ calls[s].pc = "close"
  /\ fs' = [fs EXCEPT ![closeTarget(calls[s])] = calls[s].swap]
  /\ Step(s, [Return(calls[s], "true") EXCEPT !.wrote = closeTarget(calls[s])])
  /\ UNCHANGED <<env, currentFileHandle, lastOp, lastPicked, observed, bar, events, reentrantCalls>>

closeRejects(s, name) ==
  /\ calls[s].pc = "close"
  /\ Step(s, saveFileWithFSA_catch(calls[s], name))
  /\ UNCHANGED <<env, currentFileHandle, fs, lastOp, lastPicked, observed, bar, events, reentrantCalls>>

(***************************************************************************)
(* _openFileWithFallback, lines 71-98.                                     *)
(***************************************************************************)
\* Lines 77-81: onchange with a selected file, whose bytes the codec reads.
inputChangeWithFile(s, l) ==
  /\ calls[s].pc = "input"
  /\ Step(s, [calls[s] EXCEPT !.pc = "toProto", !.picker = "selected",
                              !.file = fs[l]])
  /\ UNCHANGED <<env, currentFileHandle, fs, lastOp, lastPicked, observed, bar, events, reentrantCalls>>

\* catch of the onchange handler, lines 83-86.
openFileWithFallback_catch_Rethrow(c, name) == Raise(c, name)

openFileWithFallback_catch(c, name) ==
  [Return(c, "null") EXCEPT !.logged = TRUE]

\* Lines 81-86.
fallbackToProtoSettles(s) ==
  /\ calls[s].pc = "toProto"
  /\ ~calls[s].native
  /\ Step(s, IF toProtoOk(calls[s].file)
               THEN ReturnDocument(calls[s], toProto(calls[s].file))
               ELSE openFileWithFallback_catch(calls[s], "DecodeError"))
  /\ UNCHANGED <<env, currentFileHandle, fs, lastOp, lastPicked, observed, bar, events, reentrantCalls>>

\* Lines 77-78, 87-89: onchange with no file selected.
inputChangeEmpty(s) ==
  /\ calls[s].pc = "input"
  /\ Step(s, Return([calls[s] EXCEPT !.picker = "empty"], "null"))
  /\ UNCHANGED <<env, currentFileHandle, fs, lastOp, lastPicked, observed, bar, events, reentrantCalls>>

\* Lines 92-94: oncancel.
inputCancel(s) ==
  /\ calls[s].pc = "input"
  /\ Step(s, Return([calls[s] EXCEPT !.picker = "cancelled"], "null"))
  /\ UNCHANGED <<env, currentFileHandle, fs, lastOp, lastPicked, observed, bar, events, reentrantCalls>>

(***************************************************************************)
(* _saveFileWithFallback, lines 160-176.                                   *)
(***************************************************************************)
\* Lines 162-171: the blob is downloaded under its own name.
fallbackFromProtoResolves(s) ==
  /\ calls[s].pc = "fallbackFromProto"
  /\ Step(s, [Return(calls[s], "true") EXCEPT
                !.encoded = "ok", !.blob = fromProto(calls[s].doc),
                !.downloads = calls[s].downloads + 1,
                !.download = fromProto(calls[s].doc).name])
  /\ UNCHANGED <<env, currentFileHandle, fs, lastOp, lastPicked, observed, bar, events, reentrantCalls>>

\* Lines 162, 172-175.
fallbackFromProtoRejects(s) ==
  /\ calls[s].pc = "fallbackFromProto"
  /\ Step(s, saveFileWithFallback_catch([calls[s] EXCEPT !.encoded = "failed"],
                                        "EncodeError"))
  /\ UNCHANGED <<env, currentFileHandle, fs, lastOp, lastPicked, observed, bar, events, reentrantCalls>>

(***************************************************************************)
(* The caller's queries: each runs to its return value at once and is      *)
(* recorded with what it returned.                                         *)
(***************************************************************************)
\* `tick` flips at every query, so that a query is a step of its own even
\* when it returns what the one before it returned.
NoObservation == [op |-> "none", value |-> "", tick |-> FALSE]
BoolText(b) == IF b THEN "true" ELSE "false"
Observe(op, value) == [op |-> op, value |-> value, tick |-> ~observed.tick]

\* isFileSystemAccessSupported(), lines 18-23.
isFileSystemAccessSupportedCall ==
  /\ observed' = Observe("isFileSystemAccessSupported",
                         BoolText(isFileSystemAccessSupported))
  /\ UNCHANGED <<storageVars, bar, events, reentrantCalls>>

\* hasFileHandle(), lines 188-190.
hasFileHandleCall ==
  /\ observed' = Observe("hasFileHandle", BoolText(hasFileHandle))
  /\ UNCHANGED <<storageVars, bar, events, reentrantCalls>>

\* getCurrentFileName(), lines 195-200: the body has no await, so the value
\* the promise resolves with is fixed when the method is called.
getCurrentFileNameCall ==
  /\ observed' = Observe("getCurrentFileName", getCurrentFileName)
  /\ UNCHANGED <<storageVars, bar, events, reentrantCalls>>

(***************************************************************************)
(* ChecklistCommandBarComponent (src/unnamed/part_000).                    *)
(***************************************************************************)
\* Number of events the command bar emits before the model stops it.
MaxEvents == 3

\* What TitleDialogComponent.promptForTitle resolves with: a title, the
\* empty string, or undefined when the dialog is cancelled.
NoTitle == [kind |-> "undefined", text |-> ""]
TitleResults ==
  {[kind |-> "string", text |-> "Trip"], [kind |-> "string", text |-> "Plan"],
   [kind |-> "string", text |-> ""], NoTitle}

\* What DeleteDialogComponent.confirmDeletion resolves with: a boolean, or
\* undefined when the dialog is dismissed.
ConfirmResults == {"true", "false", "undefined"}

IdleBar ==
  [handler |-> "none", pc |-> "idle",
   hasFileSystemAccess |-> FALSE,   \* _hasFileSystemAccess, line 41
   title |-> NoTitle,               \* the local `title`
   confirmed |-> "none",            \* the local `confirmed`
   emitted |-> <<>>]                \* the events this invocation emitted

BarIdle == bar.pc \in {"idle", "done"}

\* Line 46: if (title).
emitsNewFile_Always(title) == TRUE

emitsNewFile(title) == title.kind = "string" /\ title.text # ""

\* Line 57: if (confirmed).
emitsDeleteFile_UnlessDeclined(confirmed) == confirmed # "false"

emitsDeleteFile(confirmed) == confirmed = "true"

Emit(b, event) == [b EXCEPT !.emitted = Append(b.emitted, event)]

\* onNewFile, lines 44-45, up to the await of the title dialog.
onNewFile ==
  /\ BarIdle
  /\ Len(events) < MaxEvents
  /\ bar' = [bar EXCEPT !.handler = "onNewFile", !.pc = "promptForTitle",
                        !.title = NoTitle, !.confirmed = "none", !.emitted = <<>>]
  /\ UNCHANGED <<storageVars, observed, events, reentrantCalls>>

\* Lines 45-49: the title dialog resolves.
promptForTitleResolves(title) ==
  /\ bar.pc = "promptForTitle"
  /\ LET b == [bar EXCEPT !.pc = "done", !.title = title]
         event == [name |-> "newFile", value |-> title.text] IN
     IF emitsNewFile(title)
       THEN bar' = Emit(b, event) /\ events' = Append(events, event)
       ELSE bar' = b /\ events' = events
  /\ UNCHANGED <<storageVars, observed, reentrantCalls>>

\* onDeleteFile, lines 51-55, up to the await of the confirmation dialog.
onDeleteFile ==
  /\ BarIdle
  /\ Len(events) < MaxEvents
  /\ bar' = [bar EXCEPT !.handler = "onDeleteFile", !.pc = "confirmDeletion",
                        !.title = NoTitle, !.confirmed = "none", !.emitted = <<>>]
  /\ UNCHANGED <<storageVars, observed, events, reentrantCalls>>

\* Lines 52-60: the confirmation dialog resolves.
confirmDeletionResolves(confirmed) ==
  /\ bar.pc = "confirmDeletion"
  /\ LET b == [bar EXCEPT !.pc = "done", !.confirmed = confirmed]
         event == [name |-> "deleteFile", value |-> "true"] IN
     IF emitsDeleteFile(confirmed)
       THEN bar' = Emit(b, event) /\ events' = Append(events, event)
       ELSE bar' = b /\ events' = events
  /\ UNCHANGED <<storageVars, observed, reentrantCalls>>

(***************************************************************************)
(* The specification.                                                      *)
(***************************************************************************)
Environments ==
  {e \in [window : BOOLEAN, showOpenFilePicker : BOOLEAN, showSaveFilePicker : BOOLEAN] :
     ~e.window => ~e.showOpenFilePicker /\ ~e.showSaveFilePicker}

Init ==
  /\ env \in Environments
  /\ currentFileHandle = NoHandle
  /\ fs = [l \in Locations |-> InitialContents(l)]
  /\ calls = [s \in Slots |-> IdleFrame]
  /\ lastOp = "none"
  /\ lastPicked = NoHandle
  /\ observed = NoObservation
  /\ bar = [IdleBar EXCEPT !.hasFileSystemAccess = isFileSystemAccessSupported]
  /\ events = <<>>
  /\ reentrantCalls = 0

Settle ==
  \E s \in Slots :
    \/ \E l \in Locations : showOpenFilePickerResolves(s, l)
    \/ \E name \in DOMErrorNames : showOpenFilePickerRejects(s, name)
    \/ getFileResolves(s)
    \/ \E name \in DOMErrorNames : getFileRejects(s, name)
    \/ toProtoSettles(s)
    \/ \E l \in Locations : showSaveFilePickerResolves(s, l)
    \/ showSaveFilePickerResolvesEmpty(s)
    \/ \E name \in DOMErrorNames : showSaveFilePickerRejects(s, name)
    \/ createWritableResolves(s)
    \/ \E name \in DOMErrorNames : createWritableRejects(s, name)
    \/ fromProtoResolves(s)
    \/ fromProtoRejects(s)
    \/ writeResolves(s)
    \/ \E name \in DOMErrorNames : writeRejects(s, name)
    \/ closeResolves(s)
    \/ \E name \in DOMErrorNames : closeRejects(s, name)
    \/ \E l \in Locations : inputChangeWithFile(s, l)
    \/ fallbackToProtoSettles(s)
    \/ inputChangeEmpty(s)
    \/ inputCancel(s)
    \/ fallbackFromProtoResolves(s)
    \/ fallbackFromProtoRejects(s)

Query == isFileSystemAccessSupportedCall \/ hasFileHandleCall \/ getCurrentFileNameCall

\* LocalFileStorage with a caller that makes one file operation at a time.
Next == openFile \/ saveFile \/ clearFileHandle \/ Settle \/ Query

Spec == Init /\ [][Next]_vars

\* The caller is free to overlap its calls: the code has no guard against an
\* operation invoked while an earlier call is suspended at an await.
\* Number of operations the overlapping caller invokes.
MaxReentrantCalls == 2

CountReentrantCall ==
  /\ reentrantCalls < MaxReentrantCalls
  /\ reentrantCalls' = reentrantCalls + 1

\* The overlapping caller starts a call while at most one earlier call is
\* suspended: calls overlap in pairs.
AtMostOneInFlight == \A s, t \in Slots : (InFlight(s) /\ InFlight(t)) => s = t

openFileReentrant ==
  /\ CountReentrantCall
  /\ AtMostOneInFlight
  /\ \E s \in Slots : FreeSlot(s) /\ openFileCall(s)

\* The overlapping caller saves one document: which document is saved has no
\* part in what happens to the handle.
saveFileReentrant ==
  /\ CountReentrantCall
  /\ AtMostOneInFlight
  /\ \E s \in Slots, saveAs \in BOOLEAN :
       FreeSlot(s) /\ saveFileCall(s, [name |-> "trip"], saveAs)

clearFileHandleReentrant == CountReentrantCall /\ clearFileHandleCall

NextReentrant ==
  openFileReentrant \/ saveFileReentrant \/ clearFileHandleReentrant \/ Settle

SpecReentrant == Init /\ [][NextReentrant]_vars

\* The command bar and its two dialogs.
NextCommandBar ==
  \/ onNewFile
  \/ \E title \in TitleResults : promptForTitleResolves(title)
  \/ onDeleteFile
  \/ \E confirmed \in ConfirmResults : confirmDeletionResolves(confirmed)

SpecCommandBar == Init /\ [][NextCommandBar]_vars

(***************************************************************************)
(* Vocabulary of the properties.                                           *)
(***************************************************************************)
\* The capability as the environment has it (both picker entry points on a
\* global window), stated apart from the code's own detection.
CapabilityPresent ==
  env.window /\ env.showOpenFilePicker /\ env.showSaveFilePicker

Done(s) == calls[s].pc = "done"
IsSave(s) == calls[s].op = "saveFile"
IsOpen(s) == calls[s].op = "openFile"
Prompted(s) == calls[s].picker # "none"
\* No location's contents differ from what they were when the call began.
NothingWritten(s) == fs = calls[s].fs0 /\ calls[s].wrote = NoHandle
\* Only location l may differ from what it was when the call began.
OnlyWritten(s, l) == \A k \in Locations : k # l => fs[k] = calls[s].fs0[k]

C2_SaveReusesHeldHandle ==
  CapabilityPresent =>
    \A s \in Slots :
      (IsSave(s) /\ ~calls[s].saveAs /\ calls[s].h0 # NoHandle) =>
        /\ ~Prompted(s)
        /\ calls[s].fileHandle = calls[s].h0
        /\ currentFileHandle = calls[s].h0
        /\ lastPicked = calls[s].h0
        /\ OnlyWritten(s, calls[s].h0)
        /\ calls[s].wrote \in {NoHandle, calls[s].h0}
        /\ (calls[s].result = "true" =>
              /\ calls[s].wrote = calls[s].h0
              /\ fs[calls[s].h0] = fromProtoBytes(calls[s].doc))

\* openFile selected location 2, the next call saveFile(doc, false) wrote it
\* without a prompt.
C2_Witness ==
  /\ CapabilityPresent
  /\ \E s \in Slots :
       /\ IsSave(s) /\ Done(s) /\ ~calls[s].saveAs /\ calls[s].after = "openFile"
       /\ calls[s].h0 = 2 /\ calls[s].result = "true" /\ calls[s].wrote = 2
       /\ ~Prompted(s) /\ fs[2] # calls[s].fs0[2]

(***************************************************************************)
(* C3                                                                      *)
(***************************************************************************)
\* C3 as stated: every saveFile(doc, true) prompts for a location, and once
\* the prompt has given one it is the stored current handle.
C3_SaveAsAlwaysPrompts ==
  \A s \in Slots :
    (IsSave(s) /\ calls[s].saveAs) =>
      /\ Prompted(s)
      /\ (calls[s].picker = "selected" => currentFileHandle = calls[s].picked)

\* C3 as amended: with the capability present, every saveFile(doc, true)
\* prompts for a location, held handle or not, and once the prompt has given
\* one it is the stored current handle (the one a later saveFile(doc, false)
\* starts from).
C3_NativeSaveAsAlwaysPrompts ==
  CapabilityPresent =>
    \A s \in Slots :
      (IsSave(s) /\ calls[s].saveAs) =>
        /\ Prompted(s)
        /\ (calls[s].picker = "selected" =>
              /\ calls[s].picked \in Locations
              /\ currentFileHandle = calls[s].picked
              /\ calls[s].fileHandle = calls[s].picked)

\* A save-as that began with a handle held ended with another one stored.
C3_Witness ==
  /\ CapabilityPresent
  /\ \E s \in Slots :
       /\ IsSave(s) /\ Done(s) /\ calls[s].saveAs /\ calls[s].result = "true"
       /\ calls[s].h0 # NoHandle /\ calls[s].picked # calls[s].h0
       /\ currentFileHandle = calls[s].picked

C5_OpenCancelIsNull ==
  CapabilityPresent =>
    \A s \in Slots :
      (IsOpen(s) /\ calls[s].picker = "cancelled") =>
        /\ Done(s)
        /\ calls[s].result = "null"
        /\ currentFileHandle = calls[s].h0

\* The open picker was dismissed while a handle was held.
C5_Witness ==
  /\ CapabilityPresent
  /\ \E s \in Slots :
       /\ IsOpen(s) /\ calls[s].picker = "cancelled" /\ calls[s].h0 # NoHandle
       /\ calls[s].result = "null"

(***************************************************************************)
(* C6                                                                      *)
(***************************************************************************)
\* C6: with the capability present, a saveFile whose picker the user
\* dismissed resolves to false, raises nothing, writes no location, and
\* leaves the current handle what it was when the call began.
C6_SaveCancelIsFalse ==
  CapabilityPresent =>
    \A s \in Slots :
      (IsSave(s) /\ calls[s].picker = "cancelled") =>
        /\ Done(s)
        /\ calls[s].result = "false"
        /\ NothingWritten(s)
        /\ currentFileHandle = calls[s].h0

\* The save-as picker was dismissed while a handle was held.
C6_Witness ==
  /\ CapabilityPresent
  /\ \E s \in Slots :
       /\ IsSave(s) /\ calls[s].picker = "cancelled" /\ calls[s].saveAs
       /\ calls[s].h0 # NoHandle /\ hasFileHandle /\ calls[s].result = "false"

(***************************************************************************)
(* C7                                                                      *)
(***************************************************************************)
\* C7, in the native strategy: saveFile reports true exactly when it wrote
\* the document, false exactly when the user dismissed the save picker, and
\* raises an error otherwise; after a location was chosen or reused no
\* failure is reported as false.
C7_SaveOutcomes ==
  CapabilityPresent =>
    \A s \in Slots :
      (IsSave(s) /\ Done(s)) =>
        /\ calls[s].result \in {"true", "false", "error"}
        /\ calls[s].result = "true" <=> calls[s].wrote # NoHandle
        /\ calls[s].result = "false" <=> calls[s].picker = "cancelled"
        /\ calls[s].picker \in {"none", "selected"} => calls[s].result # "false"

(***************************************************************************)
(* C8                                                                      *)
(***************************************************************************)
\* C8: in the native strategy openFile resolves to null only when the user
\* dismissed the picker; every other failure is raised.
C8_OpenNullOnlyOnCancel ==
  CapabilityPresent =>
    \A s \in Slots :
      (IsOpen(s) /\ Done(s)) =>
        /\ calls[s].result = "null" => calls[s].picker = "cancelled"
        /\ (calls[s].picker # "cancelled" /\ calls[s].result # "document")
             => calls[s].result = "error"

(***************************************************************************)
(* C9                                                                      *)
(***************************************************************************)
\* C9: while the capability is absent no call takes the native strategy and
\* no handle is ever held: hasFileHandle() is false and getCurrentFileName()
\* is absent in every reachable state.
C9_FallbackNeverSetsHandle ==
  ~CapabilityPresent =>
    /\ ~hasFileHandle
    /\ getCurrentFileName = "undefined"
    /\ lastPicked = NoHandle
    /\ \A s \in Slots : ~calls[s].native /\ calls[s].h0 = NoHandle

\* Without the capability, a file was opened and the next call saved it.
C9_Witness ==
  /\ ~CapabilityPresent
  /\ \E s \in Slots :
       /\ IsSave(s) /\ Done(s) /\ calls[s].after = "openFile"
       /\ calls[s].result = "true" /\ calls[s].downloads = 1

(***************************************************************************)
(* C10                                                                     *)
(***************************************************************************)
\* C10: in the fallback strategy saveFile never raises and never prompts;
\* it reports true, after one download named as the codec's blob, whenever
\* encoding succeeds, and false exactly when encoding fails.
C10_FallbackSaveOutcomes ==
  ~CapabilityPresent =>
    \A s \in Slots :
      IsSave(s) =>
        /\ ~Prompted(s)
        /\ calls[s].result # "error"
        /\ NothingWritten(s)
        /\ (Done(s) =>
              /\ calls[s].encoded \in {"ok", "failed"}
              /\ calls[s].result = "true" <=> calls[s].encoded = "ok"
              /\ calls[s].result = "false" <=> calls[s].encoded = "failed"
              /\ (calls[s].encoded = "ok" =>
                    /\ calls[s].downloads = 1
                    /\ calls[s].download = fromProtoName(calls[s].doc))
              /\ (calls[s].encoded = "failed" => calls[s].downloads = 0))

\* A fallback save-as downloaded the blob and reported true.
C10_Witness ==
  /\ ~CapabilityPresent
  /\ \E s \in Slots :
       /\ IsSave(s) /\ Done(s) /\ calls[s].saveAs /\ calls[s].result = "true"
       /\ calls[s].downloads = 1 /\ calls[s].download = <<"trip", ".json">>

(***************************************************************************)
(* C11                                                                     *)
(***************************************************************************)
\* C11: in the fallback strategy openFile never raises; once settled it has
\* resolved to the decoded document when the selected file decodes, to null
\* with the failure logged when it does not, and to null when the user
\* cancelled or selected nothing; a settled call takes no further step.
C11_FallbackOpenOutcomes ==
  ~CapabilityPresent =>
    \A s \in Slots :
      IsOpen(s) =>
        /\ calls[s].result # "error"
        /\ calls[s].result # "none" <=> Done(s)
        /\ (Done(s) =>
              /\ calls[s].picker \in {"selected", "empty", "cancelled"}
              /\ (calls[s].picker = "selected" /\ toProtoOk(calls[s].file)) =>
                   /\ calls[s].result = "document"
                   /\ calls[s].resultDoc = toProto(calls[s].file)
                   /\ ~calls[s].logged
              /\ (calls[s].picker = "selected" /\ ~toProtoOk(calls[s].file)) =>
                   calls[s].result = "null" /\ calls[s].logged
              /\ calls[s].picker \in {"empty", "cancelled"} =>
                   calls[s].result = "null" /\ ~calls[s].logged)

\* A fallback open was given a file that is no checklist: null, logged.
C11_Witness ==
  /\ ~CapabilityPresent
  /\ \E s \in Slots :
       /\ IsOpen(s) /\ Done(s) /\ calls[s].picker = "selected"
       /\ ~toProtoOk(calls[s].file)
       /\ calls[s].result = "null" /\ calls[s].logged

(***************************************************************************)
(* C12                                                                     *)
(***************************************************************************)
\* A step in which the caller made the query `op`.
Queried(op) == observed'.tick # observed.tick /\ observed'.op = op

\* C12: getCurrentFileName() returns an absent result exactly when no handle
\* is held (when hasFileHandle() returns false) and the held handle's name
\* otherwise; neither query opens a picker, starts or moves a call, writes a
\* location or changes the current handle.
C12_QueriesReadTheHandle ==
  [][/\ Queried("getCurrentFileName") =>
          /\ observed'.value = "undefined" <=> currentFileHandle = NoHandle
          /\ currentFileHandle # NoHandle =>
               observed'.value = HandleName(currentFileHandle)
          /\ UNCHANGED storageVars
     /\ Queried("hasFileHandle") =>
          /\ observed'.value = "false" <=> currentFileHandle = NoHandle
          /\ observed'.value = "true" <=> currentFileHandle \in Locations
          /\ UNCHANGED storageVars]_vars

\* After a native open that selected "trip.json" and read a document from
\* it, getCurrentFileName() returned "trip.json".
C12_Witness ==
  /\ observed.op = "getCurrentFileName" /\ observed.value = "trip.json"
  /\ \E s \in Slots :
       /\ IsOpen(s) /\ Done(s) /\ calls[s].native
       /\ calls[s].picked = 1 /\ calls[s].result = "document"

(***************************************************************************)
(* C13                                                                     *)
(***************************************************************************)
\* C13: isFileSystemAccessSupported() returns true exactly when a window
\* exists with both picker entry points, changes no state however often it
\* is called, and every openFile / saveFile call takes the native strategy
\* exactly when the capability is present.
C13_CapabilityDetection ==
  /\ [][Queried("isFileSystemAccessSupported") =>
          /\ observed'.value = BoolText(env.window /\ env.showOpenFilePicker
                                          /\ env.showSaveFilePicker)
          /\ UNCHANGED <<storageVars, bar, events, reentrantCalls>>]_vars
  /\ [](\A s \in Slots :
          calls[s].op # "none" => (calls[s].native <=> CapabilityPresent))

\* A window with only one of the two pickers: the query returned false twice
\* and the call that followed took the fallback strategy.
C13_Witness ==
  /\ env.window /\ env.showOpenFilePicker /\ ~env.showSaveFilePicker
  /\ observed.op = "isFileSystemAccessSupported" /\ observed.value = "false"
  /\ ~observed.tick
  /\ \E s \in Slots : IsOpen(s) /\ ~calls[s].native /\ calls[s].pc = "input"

(***************************************************************************)
(* C14                                                                     *)
(***************************************************************************)
NewFileEvent(text) == [name |-> "newFile", value |-> text]
DeleteFileEvent == [name |-> "deleteFile", value |-> "true"]

\* C14: an invocation of onNewFile emits nothing before its title dialog has
\* resolved; when the dialog resolves with a non-empty title it emits newFile
\* once, carrying that title, and when the dialog is cancelled or gives an
\* empty title it emits no event of any kind.
C14_NewFileOnlyOnTitle ==
  /\ [](bar.handler = "onNewFile" =>
          /\ bar.pc = "promptForTitle" => bar.emitted = <<>>
          /\ bar.pc = "done" =>
               bar.emitted = IF bar.title.kind = "string" /\ bar.title.text # ""
                               THEN <<NewFileEvent(bar.title.text)>> ELSE <<>>)
  /\ [][bar'.handler = "onNewFile" =>
          events' = IF /\ bar.pc = "promptForTitle" /\ bar'.pc = "done"
                       /\ bar'.title.kind = "string" /\ bar'.title.text # ""
                      THEN Append(events, NewFileEvent(bar'.title.text))
                      ELSE events]_vars

\* After an earlier event, the title dialog gave "Trip" and newFile("Trip")
\* was emitted.
C14_Witness ==
  /\ bar.handler = "onNewFile" /\ bar.pc = "done"
  /\ bar.title = [kind |-> "string", text |-> "Trip"]
  /\ Len(events) = 2 /\ events[2] = NewFileEvent("Trip")

(***************************************************************************)
(* C15                                                                     *)
(***************************************************************************)
\* C15: an invocation of onDeleteFile emits nothing before its confirmation
\* dialog has resolved; when the dialog resolves to confirmed it emits
\* deleteFile(true) once, and when the user declines it emits nothing.
C15_DeleteFileOnlyOnConfirm ==
  /\ [](bar.handler = "onDeleteFile" =>
          /\ bar.pc = "confirmDeletion" => bar.emitted = <<>>
          /\ bar.pc = "done" =>
               bar.emitted = IF bar.confirmed = "true"
                               THEN <<DeleteFileEvent>> ELSE <<>>)
  /\ [][bar'.handler = "onDeleteFile" =>
          events' = IF /\ bar.pc = "confirmDeletion" /\ bar'.pc = "done"
                       /\ bar'.confirmed = "true"
                      THEN Append(events, DeleteFileEvent)
                      ELSE events]_vars

\* A confirmed deletion emitted deleteFile(true), the only event so far.
C15_Witness ==
  /\ bar.handler = "onDeleteFile" /\ bar.pc = "done" /\ bar.confirmed = "true"
  /\ events = <<DeleteFileEvent>>

(***************************************************************************)
(* C16                                                                     *)
(***************************************************************************)
\* The location a native save is aimed at: the one its prompt gave, or the
\* handle held when it began if it did not prompt.
SaveTarget(s) ==
  IF calls[s].picker = "selected" THEN calls[s].picked ELSE calls[s].h0

\* C16: in the native strategy, when saveFile has returned true the whole
\* contents of its target location are exactly the bytes of the codec's
\* encoding of the document passed to the call, and every other location is
\* as it was when the call began.
C16_SaveReplacesContents ==
  CapabilityPresent =>
    \A s \in Slots :
      (IsSave(s) /\ Done(s) /\ calls[s].result = "true") =>
        /\ SaveTarget(s) \in Locations
        /\ calls[s].wrote = SaveTarget(s)
        /\ fs[SaveTarget(s)] = fromProtoBytes(calls[s].doc)
        /\ Len(fs[SaveTarget(s)]) = Len(calls[s].blob.bytes)
        /\ OnlyWritten(s, SaveTarget(s))

\* A save replaced contents that were longer than the encoded document.
C16_Witness ==
  /\ CapabilityPresent
  /\ \E s \in Slots :
       /\ IsSave(s) /\ Done(s) /\ calls[s].result = "true"
       /\ Len(calls[s].fs0[SaveTarget(s)]) > Len(fromProtoBytes(calls[s].doc))
       /\ fs[SaveTarget(s)] = fromProtoBytes(calls[s].doc)

(***************************************************************************)
(* C17                                                                     *)
(***************************************************************************)
\* C17: in the native strategy saveFile is at its write step (createWritable,
\* fromProto, write, close) only with a file handle; when the save picker
\* yields no handle the call raises Error('No file handle available'),
\* returns neither true nor false, and writes nothing.
C17_NoWriteWithoutHandle ==
  CapabilityPresent =>
    \A s \in Slots :
      IsSave(s) =>
        /\ calls[s].pc \in {"createWritable", "fromProto", "write", "close"} =>
             calls[s].fileHandle \in Locations
        /\ calls[s].wrote # NoHandle => calls[s].fileHandle \in Locations
        /\ calls[s].picker = "empty" =>
             /\ Done(s)
             /\ calls[s].result = "error" /\ calls[s].errorName = "Error"
             /\ NothingWritten(s)
             /\ calls[s].encoded = "no"

\* No handle was held, the save picker yielded none, and the call raised.
C17_Witness ==
  /\ CapabilityPresent
  /\ \E s \in Slots :
       /\ IsSave(s) /\ Done(s) /\ calls[s].h0 = NoHandle
       /\ calls[s].picker = "empty" /\ calls[s].result = "error"
       /\ ~hasFileHandle

(***************************************************************************)
(* C18                                                                     *)
(***************************************************************************)
\* The handle a call expects to find in the field: what its picker resolved
\* with (a location, or no handle), or the one held when it began if its
\* picker has not resolved.
View(s) ==
  IF calls[s].picker \in {"selected", "empty"} THEN calls[s].picked
  ELSE calls[s].h0

\* A picker of call s resolves in this step, lines 44-56 and 124-135.
PickerResolves(s) ==
  /\ calls[s].pc \in {"showOpenFilePicker", "showSaveFilePicker"}
  /\ calls'[s].picker \in {"selected", "empty"}

\* This step is clearFileHandle().
Clears == lastOp' = "clearFileHandle" /\ calls' = [t \in Slots |-> Release(t)]

\* C18 as stated: under any interleaving of calls, every call in flight finds
\* in the field the handle it expects (nothing changed it underneath the
\* call), and while clearFileHandle() is the last operation invoked no handle
\* is held.
C18_HandleStableUnderAnyInterleaving ==
  /\ \A s \in Slots : InFlight(s) => currentFileHandle = View(s)
  /\ lastOp = "clearFileHandle" => ~hasFileHandle

\* C18 amended: the field changes only in a step where an open or save picker
\* resolves (to what the picker gave, whether or not the call then succeeds)
\* or in clearFileHandle() (to none); a call in flight during which no other
\* operation was invoked finds in the field the handle it expects; and a
\* handle held while clearFileHandle() is the last operation invoked was
\* picked by a call that the clear overlapped.
C18_HandleStableWithoutOverlap ==
  /\ [][currentFileHandle' # currentFileHandle =>
          \/ \E s \in Slots :
               PickerResolves(s) /\ currentFileHandle' = calls'[s].picked
          \/ Clears /\ currentFileHandle' = NoHandle]_vars
  /\ [](\A s \in Slots :
          (InFlight(s) /\ ~calls[s].overlapped) => currentFileHandle = View(s))
  /\ []((lastOp = "clearFileHandle" /\ hasFileHandle) =>
          \E s \in Slots :
            /\ calls[s].overlapped
            /\ calls[s].picker = "selected"
            /\ calls[s].picked = currentFileHandle)

\* A call that no other operation overlapped began with a handle held, its
\* picker gave a different location, and the field holds that location while
\* the call is still in flight.
C18_Witness ==
  \E s \in Slots :
    /\ InFlight(s) /\ ~calls[s].overlapped
    /\ calls[s].picker = "selected"
    /\ calls[s].h0 # NoHandle
    /\ calls[s].picked # calls[s].h0
    /\ currentFileHandle = calls[s].picked

====
